---- MODULE Spec2Model ----
(***************************************************************************)
(* Model of spect_rs: axis binning and histogram fill (histogram.rs),      *)
(* range and polygon cuts (cut.rs) and the resource manager that owns      *)
(* them and drives the per-record update (manager.rs).                     *)
(*                                                                         *)
(* f32 values are modelled as binary floating-point numbers m * 2^e with   *)
(* a significand of MantBits bits and round-to-nearest, ties-to-even, the  *)
(* rounding IEEE-754 applies after every arithmetic operation.  f32 has a  *)
(* 24 bit significand; the model keeps the rounding rule and shortens the  *)
(* significand.  Exponents are unbounded, NaN and infinities are left out. *)
(***************************************************************************)
EXTENDS Integers, Sequences, FiniteSets, TLC

VARIABLES
    histograms,   \* ResourceManager.histograms : id -> Histogram
    cuts,         \* ResourceManager.cuts       : id -> Cut
    axis,         \* a free-standing AxisSpec (or NoAxis)
    gram,         \* a free-standing Histogram (or NoGram)
    cut,          \* a free-standing Cut (or NoCut)
    ret,          \* the last call: its name, arguments and result
    panicked      \* TRUE once a call has panicked (the thread unwinds)

vars == <<histograms, cuts, axis, gram, cut, ret, panicked>>

(***************************************************************************)
(* Bounds of the model.                                                    *)
(***************************************************************************)
MantBits == 3      \* significand width of the modelled floats
MaxBins == 2       \* largest bin count of an axis drawn as input
MaxFills == 2      \* largest total count of the free-standing histogram
MaxCounts == 1     \* largest total count of a histogram of the manager
MaxDrawn == 1      \* longest drawn-cut list a histogram may grow to
MaxPoints == 5     \* longest vertex sequence handed to Cut2D::new

(***************************************************************************)
(* Program constants.                                                      *)
(***************************************************************************)
U16Max == 65535

(***************************************************************************)
(* Floating point.  A float is [m |-> significand, e |-> exponent] with    *)
(* value m * 2^e, m odd (or m = 0, e = 0) and |m| < 2^MantBits.            *)
(***************************************************************************)
RECURSIVE Pow2(_)
Pow2(n) == IF n <= 0 THEN 1 ELSE 2 * Pow2(n - 1)

Abs(n) == IF n < 0 THEN -n ELSE n

\* number of bits of a positive integer
RECURSIVE BitLen(_)
BitLen(n) == IF n <= 0 THEN 0 ELSE 1 + BitLen(n \div 2)

\* canonical form of the exactly representable value M * 2^E
RECURSIVE Reduce(_, _)
Reduce(M, E) ==
    IF M = 0 THEN [m |-> 0, e |-> 0]
    ELSE IF M % 2 = 0 THEN Reduce(M \div 2, E + 1)
    ELSE [m |-> M, e |-> E]

\* M * 2^E rounded to MantBits significant bits, nearest, ties to even
Round(M, E) ==
    LET A == Abs(M)
        k == BitLen(A) - MantBits
    IN  IF k <= 0 THEN Reduce(M, E)
        ELSE LET q == A \div Pow2(k)
                 r == A % Pow2(k)
                 half == Pow2(k - 1)
                 up == r > half \/ (r = half /\ q % 2 = 1)
                 n == IF up THEN q + 1 ELSE q
             IN  Reduce(IF M < 0 THEN -n ELSE n, E + k)

\* the integer n as a float (`bins as f32`)
FromInt(n) == Round(n, 0)

\* the literal n / 2^k as a float
Lit(n, k) == Round(n, -k)

\* both significands over the smaller exponent, for exact comparison
Aligned(a, b) ==
    LET lo == IF a.e < b.e THEN a.e ELSE b.e
    IN  [x |-> a.m * Pow2(a.e - lo), y |-> b.m * Pow2(b.e - lo), e |-> lo]

FLt(a, b) == Aligned(a, b).x < Aligned(a, b).y
FGt(a, b) == FLt(b, a)
FGe(a, b) == ~FLt(a, b)
FEq(a, b) == a = b

FSub(a, b) == LET al == Aligned(a, b) IN Round(al.x - al.y, al.e)

FMul(a, b) == Round(a.m * b.m, a.e + b.e)

\* a / b for b # 0: the quotient is computed with guard bits and a sticky
\* bit, then rounded once
FDiv(a, b) ==
    LET K == 2 * MantBits + 2
        N == Abs(a.m) * Pow2(K)
        D == Abs(b.m)
        Q == N \div D
        S == IF N % D = 0 THEN 0 ELSE 1
        neg == (a.m < 0) # (b.m < 0)
        M == 2 * Q + S
    IN  Round(IF neg THEN -M ELSE M, a.e - b.e - K - 1)

\* f32::floor followed by `as usize` (which saturates negatives to 0)
FloorToUsize(a) ==
    IF a.m <= 0 THEN 0
    ELSE IF a.e >= 0 THEN a.m * Pow2(a.e)
    ELSE a.m \div Pow2(-a.e)

(***************************************************************************)
(* Option and Result values.                                               *)
(***************************************************************************)
None == <<>>
Some(v) == <<v>>
IsSome(o) == o # <<>>
Unwrap(o) == o[1]

Ok(v) == [ok |-> TRUE, val |-> v, err |-> "none"]
Err(kind) == [ok |-> FALSE, val |-> 0, err |-> kind]

NoCall == [op |-> "none", args |-> <<>>, res |-> Ok(0)]

(***************************************************************************)
(* Input domains.                                                          *)
(***************************************************************************)
VarNames == {"x", "y"}

F0 == Lit(0, 0)
FHalf == Lit(1, 1)
F1 == Lit(1, 0)
F2 == Lit(2, 0)
F3 == Lit(3, 0)
FNeg1 == Lit(-1, 0)
\* the largest float below 2.0
FPred2 == Lit(Pow2(MantBits) - 1, MantBits - 1)

AxisEnds == {FNeg1, F0, F1, F2}
AxisValues == {FNeg1, F0, FHalf, F1, FPred2, F2, F3}

(***************************************************************************)
(* histogram.rs : AxisSpec                                                 *)
(***************************************************************************)
\* AxisSpec::new with `min > max` in place of `min >= max`
AxisSpecNewStrict(variable, bins, min, max) ==
    IF FGt(min, max) \/ bins < 1
    THEN Err("BadAxis")
    ELSE Ok([variable |-> variable, bins |-> bins,
             minimum |-> min, maximum |-> max])

AxisSpecNew(variable, bins, min, max) ==
    IF FGe(min, max) \/ bins < 1
    THEN Err("BadAxis")
    ELSE Ok([variable |-> variable, bins |-> bins,
             minimum |-> min, maximum |-> max])

get_bin_width(a) == FDiv(FSub(a.maximum, a.minimum), FromInt(a.bins))

get_bin(a, value) ==
    IF FLt(value, a.minimum) \/ FGe(value, a.maximum)
    THEN Err("OutOfBounds")
    ELSE Ok(FloorToUsize(FDiv(FSub(value, a.minimum), get_bin_width(a))))

(***************************************************************************)
(* histogram.rs : HistSpec, Histogram                                      *)
(***************************************************************************)
HistogramNew(spec) ==
    LET n == IF IsSome(spec.y_axis)
             THEN spec.x_axis.bins * Unwrap(spec.y_axis).bins
             ELSE spec.x_axis.bins
    IN  [spec |-> spec, data |-> [i \in 1..n |-> 0]]

\* a panic is not a returned value; the outcome carries this marker instead
Panic == Err("panic")

\* `self.data[bin] += 1; return Ok(bin)` on a Vec<u16> indexed from 0:
\* an index past the end panics; at u16::MAX the addition panics in a build
\* with overflow checks and wraps to 0 in a build without them.
IncrementBin(g, bin) ==
    IF bin >= Len(g.data)
    THEN {[gram |-> g, res |-> Panic, panic |-> TRUE]}
    ELSE IF g.data[bin + 1] = U16Max
    THEN {[gram |-> g, res |-> Panic, panic |-> TRUE],
          [gram |-> [g EXCEPT !.data[bin + 1] = 0], res |-> Ok(bin), panic |-> FALSE]}
    ELSE {[gram |-> [g EXCEPT !.data[bin + 1] = @ + 1], res |-> Ok(bin), panic |-> FALSE]}

Returned(g, r) == {[gram |-> g, res |-> r, panic |-> FALSE]}

\* Histogram::fill with the x counter incremented before y is looked at
HistogramFillEarly(g, x_value, y_value) ==
    LET bx == get_bin(g.spec.x_axis, x_value)
    IN  IF ~bx.ok THEN Returned(g, bx)
        ELSE IF IsSome(y_value)
        THEN IF ~IsSome(g.spec.y_axis)
             THEN Returned(g, Err("WrongDimensions"))
             ELSE LET by == get_bin(Unwrap(g.spec.y_axis), Unwrap(y_value))
                      g1 == [g EXCEPT !.data[bx.val + 1] = @ + 1]
                  IN  IF ~by.ok THEN Returned(g1, by)
                      ELSE IncrementBin(g, bx.val * by.val)
        ELSE IF IsSome(g.spec.y_axis)
        THEN Returned(g, Err("WrongDimensions"))
        ELSE IncrementBin(g, bx.val)

\* Histogram::fill with the row-major index bin_x * y_bins + bin_y
HistogramFillRowMajor(g, x_value, y_value) ==
    LET bx == get_bin(g.spec.x_axis, x_value)
    IN  IF ~bx.ok THEN Returned(g, bx)
        ELSE IF IsSome(y_value)
        THEN IF ~IsSome(g.spec.y_axis)
             THEN Returned(g, Err("WrongDimensions"))
             ELSE LET by == get_bin(Unwrap(g.spec.y_axis), Unwrap(y_value))
                  IN  IF ~by.ok THEN Returned(g, by)
                      ELSE IncrementBin(g, bx.val * Unwrap(g.spec.y_axis).bins + by.val)
        ELSE IF IsSome(g.spec.y_axis)
        THEN Returned(g, Err("WrongDimensions"))
        ELSE IncrementBin(g, bx.val)

\* the set of outcomes of Histogram::fill(x_value, y_value)
HistogramFill(g, x_value, y_value) ==
    LET bx == get_bin(g.spec.x_axis, x_value)
    IN  IF ~bx.ok THEN Returned(g, bx)
        ELSE IF IsSome(y_value)
        THEN IF ~IsSome(g.spec.y_axis)
             THEN Returned(g, Err("WrongDimensions"))
             ELSE LET by == get_bin(Unwrap(g.spec.y_axis), Unwrap(y_value))
                  IN  IF ~by.ok THEN Returned(g, by)
                      ELSE IncrementBin(g, bx.val * by.val)
        ELSE IF IsSome(g.spec.y_axis)
        THEN Returned(g, Err("WrongDimensions"))
        ELSE IncrementBin(g, bx.val)

(***************************************************************************)
(* data_blob.rs : DataBlob, a map from variable names to f32               *)
(***************************************************************************)
BlobFind(blob, variable) ==
    IF variable \in DOMAIN blob THEN Some(blob[variable]) ELSE None

(***************************************************************************)
(* cut.rs : CutSpec, Cut1D, Cut2D                                          *)
(***************************************************************************)
\* Cut2D::new with the closure test on x only
Cut2DNewClosedInX(spec, x_values, y_values) ==
    IF ~IsSome(spec.y_variable) \/ Len(x_values) # Len(y_values) \/ Len(x_values) < 3
    THEN Err("Invalid2D")
    ELSE IF x_values[1] # x_values[Len(x_values)]
    THEN Err("Unclosed2D")
    ELSE Ok([kind |-> "Cut2D", spec |-> spec, x_values |-> x_values,
             y_values |-> y_values, is_valid |-> FALSE])

\* Cut1D::is_inside with an inclusive lower bound
Cut1DIsInsideClosedLow(c, blob) ==
    LET x == IF c.spec.x_variable \in DOMAIN blob
             THEN Some(blob[c.spec.x_variable]) ELSE None
    IN  [c EXCEPT !.is_valid = IF IsSome(x)
                               THEN FGe(Unwrap(x), c.low) /\ FLt(Unwrap(x), c.high)
                               ELSE FALSE]

Cut1DNew(spec, low, high) ==
    IF FGt(low, high) \/ FEq(high, low)
    THEN Err("Invalid1D")
    ELSE Ok([kind |-> "Cut1D", spec |-> spec, low |-> low, high |-> high,
             is_valid |-> FALSE])

Cut2DNew(spec, x_values, y_values) ==
    IF ~IsSome(spec.y_variable) \/ Len(x_values) # Len(y_values) \/ Len(x_values) < 3
    THEN Err("Invalid2D")
    ELSE IF x_values[1] # x_values[Len(x_values)] \/ y_values[1] # y_values[Len(y_values)]
    THEN Err("Unclosed2D")
    ELSE Ok([kind |-> "Cut2D", spec |-> spec, x_values |-> x_values,
             y_values |-> y_values, is_valid |-> FALSE])

Cut1DIsInside(c, blob) ==
    LET x == BlobFind(blob, c.spec.x_variable)
    IN  [c EXCEPT !.is_valid = IF IsSome(x)
                               THEN FGt(Unwrap(x), c.low) /\ FLt(Unwrap(x), c.high)
                               ELSE FALSE]

\* the cross product term of edge (idx, idx+1), idx counted from 1
Slope(xs, ys, x, y, idx) ==
    FSub(FMul(FSub(x, xs[idx]), FSub(ys[idx + 1], ys[idx])),
         FMul(FSub(xs[idx + 1], xs[idx]), FSub(y, ys[idx])))

\* the loop over the edges from edge idx on, with the validity so far
RECURSIVE EdgeLoop(_, _, _, _, _, _)
EdgeLoop(xs, ys, x, y, idx, valid) ==
    IF idx > Len(xs) - 1 THEN valid
    ELSE IF FEq(x, xs[idx]) /\ FEq(y, ys[idx]) THEN TRUE
    ELSE LET slope == Slope(xs, ys, x, y, idx)
         IN  IF FEq(slope, F0) THEN TRUE
             ELSE IF FLt(slope, F0) # FLt(ys[idx + 1], ys[idx])
             THEN EdgeLoop(xs, ys, x, y, idx + 1, ~valid)
             ELSE EdgeLoop(xs, ys, x, y, idx + 1, valid)

\* Cut2D::is_inside without the reset of is_valid before the edge loop
Cut2DIsInsideDrift(c, blob) ==
    IF IsSome(c.spec.y_variable)
    THEN LET x == BlobFind(blob, c.spec.x_variable)
             y == BlobFind(blob, Unwrap(c.spec.y_variable))
         IN  IF ~IsSome(x) \/ ~IsSome(y)
             THEN [c EXCEPT !.is_valid = FALSE]
             ELSE [c EXCEPT !.is_valid =
                      EdgeLoop(c.x_values, c.y_values, Unwrap(x), Unwrap(y), 1, c.is_valid)]
    ELSE [c EXCEPT !.is_valid = FALSE]

Cut2DIsInside(c, blob) ==
    IF IsSome(c.spec.y_variable)
    THEN LET x == BlobFind(blob, c.spec.x_variable)
             y == BlobFind(blob, Unwrap(c.spec.y_variable))
         IN  IF ~IsSome(x) \/ ~IsSome(y)
             THEN [c EXCEPT !.is_valid = FALSE]
             ELSE [c EXCEPT !.is_valid =
                      EdgeLoop(c.x_values, c.y_values, Unwrap(x), Unwrap(y), 1, FALSE)]
    ELSE [c EXCEPT !.is_valid = FALSE]

\* dyn Cut dispatch
CutIsInside(c, blob) ==
    IF c.kind = "Cut1D" THEN Cut1DIsInside(c, blob) ELSE Cut2DIsInside(c, blob)

CutIsValid(c) == c.is_valid

CutReset(c) == [c EXCEPT !.is_valid = FALSE]

(***************************************************************************)
(* The state after construction: an empty manager, no free-standing object *)
(***************************************************************************)
EmptyMap == [k \in {} |-> 0]

Init ==
    /\ histograms = EmptyMap
    /\ cuts = EmptyMap
    /\ axis = None
    /\ gram = None
    /\ cut = None
    /\ ret = NoCall
    /\ panicked = FALSE

(***************************************************************************)
(* Specification of a free-standing axis: construct, then bin values.      *)
(***************************************************************************)
AxisNew ==
    \E variable \in VarNames, bins \in 0..MaxBins, min \in AxisEnds, max \in AxisEnds :
        LET r == AxisSpecNew(variable, bins, min, max)
        IN  /\ ret' = [op |-> "axis_new", args |-> <<variable, bins, min, max>>, res |-> r]
            /\ axis' = IF r.ok THEN Some(r.val) ELSE axis
            /\ UNCHANGED <<histograms, cuts, gram, cut, panicked>>

AxisGetBin ==
    /\ IsSome(axis)
    /\ \E value \in AxisValues :
        /\ ret' = [op |-> "get_bin", args |-> <<value>>, res |-> get_bin(Unwrap(axis), value)]
        /\ UNCHANGED <<histograms, cuts, axis, gram, cut, panicked>>

NextAxis == AxisNew \/ AxisGetBin

SpecAxis == Init /\ [][NextAxis]_vars

(***************************************************************************)
(* Specification of a free-standing histogram: construct, then fill.       *)
(***************************************************************************)
XAxes ==
    {[variable |-> "x", bins |-> b, minimum |-> lo, maximum |-> F2] :
        b \in 1..MaxBins, lo \in {FNeg1, F0}}

YAxes ==
    {[variable |-> "y", bins |-> b, minimum |-> lo, maximum |-> F2] :
        b \in 1..MaxBins, lo \in {FNeg1, F0}}

FreeHistSpecs ==
    {[id |-> "h1", x_axis |-> xa, y_axis |-> ya,
      cuts_to_draw |-> <<>>, cuts_to_check |-> <<>>] :
        xa \in XAxes, ya \in {None} \cup {Some(a) : a \in YAxes}}

FillValues == {FNeg1, F0, FHalf, F1, FPred2, F2}

RECURSIVE SumSeq(_)
SumSeq(s) == IF s = <<>> THEN 0 ELSE Head(s) + SumSeq(Tail(s))

HistNew ==
    /\ ~panicked
    /\ \E spec \in FreeHistSpecs :
        /\ gram' = Some(HistogramNew(spec))
        /\ ret' = [op |-> "hist_new", args |-> <<spec>>, res |-> Ok(0)]
        /\ UNCHANGED <<histograms, cuts, axis, cut, panicked>>

\* the counters grow with every fill; the guard caps them
HistFill ==
    /\ ~panicked
    /\ IsSome(gram)
    /\ SumSeq(Unwrap(gram).data) < MaxFills
    /\ \E x_value \in FillValues, y_value \in {None} \cup {Some(v) : v \in FillValues} :
       \E o \in HistogramFill(Unwrap(gram), x_value, y_value) :
        /\ gram' = Some(o.gram)
        /\ ret' = [op |-> "fill", args |-> <<x_value, y_value>>, res |-> o.res]
        /\ panicked' = o.panic
        /\ UNCHANGED <<histograms, cuts, axis, cut>>

NextHist == HistNew \/ HistFill

SpecHist == Init /\ [][NextHist]_vars

(***************************************************************************)
(* Specification of a free-standing cut: construct, evaluate, reset.       *)
(***************************************************************************)
F5 == Lit(5, 0)
F10 == Lit(10, 0)

CutEnds == {F0, F1, F10}
CutValues == {F0, FHalf, F2, F5, F10}
Coords == {F0, F1}

Blobs(values) ==
    UNION {[D -> values] : D \in SUBSET VarNames}

\* the records cuts are evaluated on: x over CutValues, y over three of them
CutBlobs ==
    {b \in Blobs(CutValues) : "y" \in DOMAIN b => b["y"] \in {F0, FHalf, F2}}

FreeCutSpecs ==
    {[id |-> "c1", x_variable |-> "x", y_variable |-> yv] :
        yv \in {None, Some("y")}}

SeqsUpTo(S, n) == UNION {[1..k -> S] : k \in 0..n}

\* a behaviour constructs one cut, as its first call
CutNew1D ==
    /\ ret = NoCall
    /\ \E spec \in FreeCutSpecs, low \in CutEnds, high \in CutEnds :
        LET r == Cut1DNew(spec, low, high)
        IN  /\ ret' = [op |-> "cut1d_new", args |-> <<spec, low, high>>, res |-> r]
            /\ cut' = IF r.ok THEN Some(r.val) ELSE cut
            /\ UNCHANGED <<histograms, cuts, axis, gram, panicked>>

CutNew2D ==
    /\ ret = NoCall
    /\ \E spec \in FreeCutSpecs,
       x_values \in SeqsUpTo(Coords, MaxPoints), y_values \in SeqsUpTo(Coords, MaxPoints) :
        LET r == Cut2DNew(spec, x_values, y_values)
        IN  /\ ret' = [op |-> "cut2d_new", args |-> <<spec, x_values, y_values>>, res |-> r]
            /\ cut' = IF r.ok THEN Some(r.val) ELSE cut
            /\ UNCHANGED <<histograms, cuts, axis, gram, panicked>>

CutEvaluate ==
    /\ IsSome(cut)
    /\ \E blob \in CutBlobs :
        /\ cut' = Some(CutIsInside(Unwrap(cut), blob))
        /\ ret' = [op |-> "is_inside", args |-> <<blob>>, res |-> Ok(0)]
        /\ UNCHANGED <<histograms, cuts, axis, gram, panicked>>

CutResetCall ==
    /\ IsSome(cut)
    /\ cut' = Some(CutReset(Unwrap(cut)))
    /\ ret' = [op |-> "reset", args |-> <<>>, res |-> Ok(0)]
    /\ UNCHANGED <<histograms, cuts, axis, gram, panicked>>

NextCut == CutNew1D \/ CutNew2D \/ CutEvaluate \/ CutResetCall

SpecCut == Init /\ [][NextCut]_vars

(***************************************************************************)
(* manager.rs : ResourceManager                                            *)
(***************************************************************************)
MapInsert(map, key, value) ==
    [k \in DOMAIN map \cup {key} |-> IF k = key THEN value ELSE map[k]]

MapRemove(map, key) == [k \in DOMAIN map \ {key} |-> map[k]]

\* the outcome of a call: the two maps, the returned value, panicked or not
Outcome(hs, cs, r, p) == [histograms |-> hs, cuts |-> cs, res |-> r, panic |-> p]

\* add_histogram that keeps the histogram already registered under the id
add_histogram_keep(hs, cs, spec) ==
    LET hs2 == IF spec.id \in DOMAIN hs THEN hs
               ELSE MapInsert(hs, spec.id, HistogramNew(spec))
    IN  Outcome(hs2, cs, Ok(Cardinality(DOMAIN hs2) - 1), FALSE)

add_histogram(hs, cs, spec) ==
    LET hs2 == MapInsert(hs, spec.id, HistogramNew(spec))
    IN  Outcome(hs2, cs, Ok(Cardinality(DOMAIN hs2) - 1), FALSE)

\* remove_histogram that reports success and removes nothing
remove_histogram_kept(hs, cs, id) ==
    IF id \notin DOMAIN hs
    THEN Outcome(hs, cs, Err("InvalidHistogramID"), FALSE)
    ELSE Outcome(hs, cs, Ok(0), FALSE)

remove_histogram(hs, cs, id) ==
    IF id \notin DOMAIN hs
    THEN Outcome(hs, cs, Err("InvalidHistogramID"), FALSE)
    ELSE Outcome(MapRemove(hs, id), cs, Ok(0), FALSE)

get_histogram_data(hs, id) ==
    IF id \in DOMAIN hs THEN Ok(hs[id].data) ELSE Err("InvalidHistogramID")

get_histogram_spec(hs, id) ==
    IF id \in DOMAIN hs THEN Ok(hs[id].spec) ELSE Err("InvalidHistogramID")

\* add_cut_1d that pushes the id onto the gating list as well
add_cut_1d_gating(hs, cs, spec, low_value, high_value, histogram_id) ==
    IF histogram_id \notin DOMAIN hs
    THEN Outcome(hs, cs, Err("NoReferenceHistogram"), FALSE)
    ELSE LET hs2 == [hs EXCEPT ![histogram_id].spec.cuts_to_draw = Append(@, spec.id),
                               ![histogram_id].spec.cuts_to_check = Append(@, spec.id)]
             c == Cut1DNew(spec, low_value, high_value)
         IN  IF ~c.ok THEN Outcome(hs2, cs, Err(c.err), FALSE)
             ELSE Outcome(hs2, MapInsert(cs, spec.id, c.val), Ok(0), FALSE)

\* the id is pushed onto cuts_to_draw first; the `?` on the constructor
\* then returns early on a construction error
add_cut_1d(hs, cs, spec, low_value, high_value, histogram_id) ==
    IF histogram_id \notin DOMAIN hs
    THEN Outcome(hs, cs, Err("NoReferenceHistogram"), FALSE)
    ELSE LET hs2 == [hs EXCEPT ![histogram_id].spec.cuts_to_draw = Append(@, spec.id)]
             c == Cut1DNew(spec, low_value, high_value)
         IN  IF ~c.ok THEN Outcome(hs2, cs, Err(c.err), FALSE)
             ELSE Outcome(hs2, MapInsert(cs, spec.id, c.val), Ok(0), FALSE)

\* add_cut_2d that registers the cut although the histogram is unknown
add_cut_2d_orphan(hs, cs, spec, x_values, y_values, histogram_id) ==
    LET hs2 == IF histogram_id \in DOMAIN hs
               THEN [hs EXCEPT ![histogram_id].spec.cuts_to_draw = Append(@, spec.id)]
               ELSE hs
        c == Cut2DNew(spec, x_values, y_values)
    IN  IF ~c.ok THEN Outcome(hs2, cs, Err(c.err), FALSE)
        ELSE Outcome(hs2, MapInsert(cs, spec.id, c.val), Ok(0), FALSE)

add_cut_2d(hs, cs, spec, x_values, y_values, histogram_id) ==
    IF histogram_id \notin DOMAIN hs
    THEN Outcome(hs, cs, Err("NoReferenceHistogram"), FALSE)
    ELSE LET hs2 == [hs EXCEPT ![histogram_id].spec.cuts_to_draw = Append(@, spec.id)]
             c == Cut2DNew(spec, x_values, y_values)
         IN  IF ~c.ok THEN Outcome(hs2, cs, Err(c.err), FALSE)
             ELSE Outcome(hs2, MapInsert(cs, spec.id, c.val), Ok(0), FALSE)

\* the gating loop with an unregistered id counted as a failed cut
RECURSIVE PassedCutsStrict(_, _, _)
PassedCutsStrict(cs, check, i) ==
    IF i > Len(check) THEN TRUE
    ELSE IF check[i] \notin DOMAIN cs \/ ~CutIsValid(cs[check[i]]) THEN FALSE
    ELSE PassedCutsStrict(cs, check, i + 1)

\* the gating loop of update over cuts_to_check, from position i on
RECURSIVE PassedCuts(_, _, _)
PassedCuts(cs, check, i) ==
    IF i > Len(check) THEN TRUE
    ELSE IF check[i] \in DOMAIN cs /\ ~CutIsValid(cs[check[i]]) THEN FALSE
    ELSE PassedCuts(cs, check, i + 1)

\* the body of the loop over the histograms for one histogram: the set of
\* outcomes [gram, res, panic]; `continue` leaves the histogram as it is
UpdateGram(g, cs, data) ==
    IF ~PassedCuts(cs, g.spec.cuts_to_check, 1) THEN Returned(g, Ok(0))
    ELSE LET x_val == BlobFind(data, g.spec.x_axis.variable)
         IN  IF ~IsSome(x_val) THEN Returned(g, Ok(0))
             ELSE IF IsSome(g.spec.y_axis)
             THEN LET y_val == BlobFind(data, Unwrap(g.spec.y_axis).variable)
                  IN  IF ~IsSome(y_val) THEN Returned(g, Ok(0))
                      ELSE HistogramFill(g, Unwrap(x_val), Some(Unwrap(y_val)))
             ELSE HistogramFill(g, Unwrap(x_val), None)

\* the loop over histograms.values_mut() in the order `order`; a panic in a
\* fill ends the loop and the call
RECURSIVE UpdateLoop(_, _, _, _)
UpdateLoop(order, hs, cs, data) ==
    IF order = <<>> THEN {Outcome(hs, cs, Ok(0), FALSE)}
    ELSE UNION {
           IF o.panic
           THEN {Outcome([hs EXCEPT ![Head(order)] = o.gram], cs, Panic, TRUE)}
           ELSE UpdateLoop(Tail(order), [hs EXCEPT ![Head(order)] = o.gram], cs, data) :
           o \in UpdateGram(hs[Head(order)], cs, data)}

\* the iteration orders a hash map over the keys S may have
Orders(S) ==
    {o \in [1..Cardinality(S) -> S] : \A i, j \in DOMAIN o : i # j => o[i] # o[j]}

\* update that checks the gates before it re-evaluates the cuts
update_stale(hs, cs, data) ==
    LET cs2 == [id \in DOMAIN cs |-> CutIsInside(cs[id], data)]
    IN  {[o EXCEPT !.cuts = cs2] :
            o \in UNION {UpdateLoop(order, hs, cs, data) : order \in Orders(DOMAIN hs)}}

\* the set of outcomes of update(data)
update(hs, cs, data) ==
    LET cs2 == [id \in DOMAIN cs |-> CutIsInside(cs[id], data)]
    IN  UNION {UpdateLoop(order, hs, cs2, data) : order \in Orders(DOMAIN hs)}

(***************************************************************************)
(* Specification of the resource manager.                                  *)
(***************************************************************************)
HistIds == {"h1", "h2"}
CutIds == {"c1", "c2"}

\* x in [0, 2) in two bins; x in [-1, 2) in one bin; y in [0, 2) in two bins
AxisA == [variable |-> "x", bins |-> 2, minimum |-> F0, maximum |-> F2]
AxisB == [variable |-> "x", bins |-> 1, minimum |-> FNeg1, maximum |-> F2]
AxisY == [variable |-> "y", bins |-> 2, minimum |-> F0, maximum |-> F2]

HistSpecs ==
    {[id |-> "h1", x_axis |-> AxisA, y_axis |-> None,
      cuts_to_draw |-> <<>>, cuts_to_check |-> <<"c1">>],
     [id |-> "h1", x_axis |-> AxisB, y_axis |-> None,
      cuts_to_draw |-> <<>>, cuts_to_check |-> <<"c1">>],
     [id |-> "h2", x_axis |-> AxisA, y_axis |-> Some(AxisY),
      cuts_to_draw |-> <<>>, cuts_to_check |-> <<"c2", "c1">>],
     [id |-> "h2", x_axis |-> AxisA, y_axis |-> None,
      cuts_to_draw |-> <<>>, cuts_to_check |-> <<>>]}

\* the histogram cuts are attached to
TargetIds == {"h1"}

Cut1DSpecs == {[id |-> "c1", x_variable |-> "x", y_variable |-> None]}
Cut2DSpecs == {[id |-> "c2", x_variable |-> "x", y_variable |-> yv] :
                  yv \in {None, Some("y")}}
RangeEnds == {<<F0, F1>>, <<F0, F2>>, <<F1, F0>>}

UnitSquareX == <<F0, F0, F1, F1, F0>>
UnitSquareY == <<F0, F1, F1, F0, F0>>
Polygons ==
    {<<UnitSquareX, UnitSquareY>>,
     <<SubSeq(UnitSquareX, 1, 4), SubSeq(UnitSquareY, 1, 4)>>}

Records ==
    {r \in Blobs({FHalf, FPred2, F3}) : "y" \in DOMAIN r => r["y"] = FHalf}

Apply(o, call) ==
    /\ histograms' = o.histograms
    /\ cuts' = o.cuts
    /\ ret' = [call EXCEPT !.res = o.res]
    /\ panicked' = o.panic
    /\ UNCHANGED <<axis, gram, cut>>

AddHistogram ==
    /\ ~panicked
    /\ \E spec \in HistSpecs :
        Apply(add_histogram(histograms, cuts, spec),
              [op |-> "add_histogram", args |-> <<spec>>, res |-> Ok(0)])

RemoveHistogram ==
    /\ ~panicked
    /\ \E id \in HistIds :
        Apply(remove_histogram(histograms, cuts, id),
              [op |-> "remove_histogram", args |-> <<id>>, res |-> Ok(0)])

GetHistogramData ==
    /\ ~panicked
    /\ \E id \in HistIds :
        Apply(Outcome(histograms, cuts, get_histogram_data(histograms, id), FALSE),
              [op |-> "get_histogram_data", args |-> <<id>>, res |-> Ok(0)])

GetHistogramSpec ==
    /\ ~panicked
    /\ \E id \in HistIds :
        Apply(Outcome(histograms, cuts, get_histogram_spec(histograms, id), FALSE),
              [op |-> "get_histogram_spec", args |-> <<id>>, res |-> Ok(0)])

\* the drawn-cut list grows with every call; the guard caps it
DrawnRoom(id) ==
    id \in DOMAIN histograms => Len(histograms[id].spec.cuts_to_draw) < MaxDrawn

AddCut1D ==
    /\ ~panicked
    /\ \E spec \in Cut1DSpecs, ends \in RangeEnds, histogram_id \in TargetIds :
        /\ DrawnRoom(histogram_id)
        /\ Apply(add_cut_1d(histograms, cuts, spec, ends[1], ends[2], histogram_id),
                 [op |-> "add_cut_1d", args |-> <<spec, ends[1], ends[2], histogram_id>>,
                  res |-> Ok(0)])

AddCut2D ==
    /\ ~panicked
    /\ \E spec \in Cut2DSpecs, poly \in Polygons, histogram_id \in TargetIds :
        /\ DrawnRoom(histogram_id)
        /\ Apply(add_cut_2d(histograms, cuts, spec, poly[1], poly[2], histogram_id),
                 [op |-> "add_cut_2d", args |-> <<spec, poly[1], poly[2], histogram_id>>,
                  res |-> Ok(0)])

\* the counters grow with every update; the guard caps them
Update ==
    /\ ~panicked
    /\ \A id \in DOMAIN histograms : SumSeq(histograms[id].data) < MaxCounts
    /\ \E data \in Records :
       \E o \in update(histograms, cuts, data) :
        Apply(o, [op |-> "update", args |-> <<data>>, res |-> Ok(0)])

Next ==
    \/ AddHistogram
    \/ RemoveHistogram
    \/ GetHistogramData
    \/ GetHistogramSpec
    \/ AddCut1D
    \/ AddCut2D
    \/ Update

Spec == Init /\ [][Next]_vars

(***************************************************************************)
(* Claims about the axis (SpecAxis).                                       *)
(***************************************************************************)
\* the exact value floor((value - min) / ((max - min) / bins)), in integers
ExactBin(a, value) ==
    LET e0 == CHOOSE e \in {a.minimum.e, a.maximum.e, value.e} :
                  \A f \in {a.minimum.e, a.maximum.e, value.e} : e <= f
        lo == a.minimum.m * Pow2(a.minimum.e - e0)
        hi == a.maximum.m * Pow2(a.maximum.e - e0)
        v == value.m * Pow2(value.e - e0)
    IN  ((v - lo) * a.bins) \div (hi - lo)

\* C8: on a valid axis get_bin fails with OutOfBounds iff value < min or
\* value >= max; otherwise it returns floor((value - min) / bin_width), which
\* is 0 at value = min and lies in 0 .. bins-1.
C8_GetBinRange ==
    (ret.op = "get_bin") =>
        LET a == Unwrap(axis)
            value == ret.args[1]
            out == FLt(value, a.minimum) \/ FGe(value, a.maximum)
        IN  /\ ~ret.res.ok <=> out
            /\ ~ret.res.ok => ret.res.err = "OutOfBounds"
            /\ ret.res.ok =>
                /\ ret.res.val = ExactBin(a, value)
                /\ value = a.minimum => ret.res.val = 0
                /\ ret.res.val \in 0..(a.bins - 1)

\* C9: AxisSpec::new fails, with BadAxis, iff min >= max or bins < 1; any
\* other arguments construct an axis holding exactly the values given.
C9_AxisConstruction ==
    (ret.op = "axis_new") =>
        LET variable == ret.args[1]
            bins == ret.args[2]
            min == ret.args[3]
            max == ret.args[4]
            bad == ~FLt(min, max) \/ bins = 0
        IN  /\ ~ret.res.ok <=> bad
            /\ ~ret.res.ok => ret.res.err = "BadAxis"
            /\ ret.res.ok =>
                /\ ret.res.val = [variable |-> variable, bins |-> bins,
                                  minimum |-> min, maximum |-> max]
                /\ axis = Some(ret.res.val)

\* a construction refused only because min = max
C9_Witness ==
    /\ ret.op = "axis_new"
    /\ ~ret.res.ok
    /\ ret.args[2] >= 1
    /\ ret.args[3] = ret.args[4]

(***************************************************************************)
(* Claims about the histogram (SpecHist).                                  *)
(***************************************************************************)
\* C5: a fill that succeeds increments exactly the counter whose index it
\* returns, by one, and leaves every other counter as it was; a fill that
\* fails changes no counter.
C5_FillFrame ==
    [][(ret'.op = "fill") =>
        LET before == Unwrap(gram).data
            after == Unwrap(gram').data
            r == ret'.res
        IN  /\ DOMAIN after = DOMAIN before
            /\ r.ok =>
                /\ r.val + 1 \in DOMAIN before
                /\ after[r.val + 1] = before[r.val + 1] + 1
                /\ \A i \in DOMAIN before : i # r.val + 1 => after[i] = before[i]
            /\ ~r.ok => after = before]_vars

\* a 2-D fill refused on y after x was binned, on a histogram filled before
C5_Witness ==
    /\ ret.op = "fill"
    /\ IsSome(gram)
    /\ IsSome(Unwrap(gram).spec.y_axis)
    /\ ret.res.err = "OutOfBounds"
    /\ get_bin(Unwrap(gram).spec.x_axis, ret.args[1]).ok
    /\ SumSeq(Unwrap(gram).data) = 1

\* value lies in the half-open range of axis a
InsideAxis(a, value) == FGe(value, a.minimum) /\ FLt(value, a.maximum)

\* C11: a fill without y on a 2-D histogram, or with y on a 1-D histogram,
\* fails with WrongDimensions when x is in range; a fill with both values on
\* a 2-D histogram fails with OutOfBounds when either coordinate is outside
\* its axis range and succeeds when both are in range.
C11_FillErrorKinds ==
    (ret.op = "fill") =>
        LET spec == Unwrap(gram).spec
            x == ret.args[1]
            y == ret.args[2]
            x_in == InsideAxis(spec.x_axis, x)
        IN  /\ (IsSome(spec.y_axis) /\ ~IsSome(y) /\ x_in) =>
                ret.res = Err("WrongDimensions")
            /\ (~IsSome(spec.y_axis) /\ IsSome(y) /\ x_in) =>
                ret.res = Err("WrongDimensions")
            /\ (IsSome(spec.y_axis) /\ IsSome(y)) =>
                LET y_in == InsideAxis(Unwrap(spec.y_axis), Unwrap(y))
                IN  /\ (~x_in \/ ~y_in) => ret.res = Err("OutOfBounds")
                    /\ (x_in /\ y_in) => ret.res.ok

\* the error kinds of C11 alone: they are as stated for every fill, and a
\* fill with both values in range succeeds unless it panics
FillErrorKindsUnlessPanic ==
    (ret.op = "fill") =>
        LET spec == Unwrap(gram).spec
            x == ret.args[1]
            y == ret.args[2]
            x_in == InsideAxis(spec.x_axis, x)
        IN  /\ (IsSome(spec.y_axis) /\ ~IsSome(y) /\ x_in) =>
                ret.res = Err("WrongDimensions")
            /\ (~IsSome(spec.y_axis) /\ IsSome(y) /\ x_in) =>
                ret.res = Err("WrongDimensions")
            /\ (IsSome(spec.y_axis) /\ IsSome(y)) =>
                LET y_in == InsideAxis(Unwrap(spec.y_axis), Unwrap(y))
                IN  /\ (~x_in \/ ~y_in) => ret.res = Err("OutOfBounds")
                    /\ (x_in /\ y_in) => (ret.res.ok \/ panicked)

\* C15: a fill of a 2-D histogram with both coordinates in range that
\* returns increments the counter bin_x * bin_y and returns that index, where
\* bin_x and bin_y are the bins get_bin gives the two values on the x and the
\* y axis.
C15_ProductIndex ==
    [][(/\ ret'.op = "fill"
        /\ ret'.res.ok
        /\ IsSome(Unwrap(gram).spec.y_axis)
        /\ IsSome(ret'.args[2])) =>
        LET g == Unwrap(gram)
            bin_x == get_bin(g.spec.x_axis, ret'.args[1])
            bin_y == get_bin(Unwrap(g.spec.y_axis), Unwrap(ret'.args[2]))
        IN  /\ InsideAxis(g.spec.x_axis, ret'.args[1])
            /\ InsideAxis(Unwrap(g.spec.y_axis), Unwrap(ret'.args[2]))
            /\ ret'.res.val = bin_x.val * bin_y.val
            /\ Unwrap(gram').data = [g.data EXCEPT ![ret'.res.val + 1] = @ + 1]]_vars

\* a fill of a 2 x 2 histogram that landed in bin 1 of either axis
C15_Witness ==
    /\ ret.op = "fill"
    /\ ret.res = Ok(1)
    /\ IsSome(Unwrap(gram).spec.y_axis)
    /\ Len(Unwrap(gram).data) = 4
    /\ IsSome(ret.args[2])
    /\ get_bin(Unwrap(gram).spec.x_axis, ret.args[1]) = Ok(1)
    /\ get_bin(Unwrap(Unwrap(gram).spec.y_axis), Unwrap(ret.args[2])) = Ok(1)

(***************************************************************************)
(* Claims about the cuts (SpecCut).                                        *)
(***************************************************************************)
IsUnitSquare(c) ==
    /\ c.kind = "Cut2D"
    /\ c.x_values = <<F0, F0, F1, F1, F0>>
    /\ c.y_values = <<F0, F1, F1, F0, F0>>

Point(blob, x, y) == DOMAIN blob = {"x", "y"} /\ blob["x"] = x /\ blob["y"] = y

\* C6: on the closed unit square (0,0),(0,1),(1,1),(1,0),(0,0) the point
\* (0.5,0.5) is valid, the point (2,2) is invalid and the vertex (0,0) is
\* valid.
C6_UnitSquare ==
    (ret.op = "is_inside" /\ IsUnitSquare(Unwrap(cut))) =>
        LET blob == ret.args[1]
            valid == Unwrap(cut).is_valid
        IN  /\ Point(blob, FHalf, FHalf) => valid
            /\ Point(blob, F2, F2) => ~valid
            /\ Point(blob, F0, F0) => valid

\* C7: after a range cut is evaluated it is valid exactly when the record
\* holds x_variable and low < value < high, both bounds exclusive.
C7_RangeCut ==
    (ret.op = "is_inside" /\ Unwrap(cut).kind = "Cut1D") =>
        LET blob == ret.args[1]
            c == Unwrap(cut)
        IN  c.is_valid <=>
                /\ c.spec.x_variable \in DOMAIN blob
                /\ FLt(c.low, blob[c.spec.x_variable])
                /\ FLt(blob[c.spec.x_variable], c.high)

\* the cut 0 < x < 10 evaluated on x = 0, the excluded lower bound
C7_Witness ==
    /\ ret.op = "is_inside"
    /\ Unwrap(cut).kind = "Cut1D"
    /\ Unwrap(cut).low = F0
    /\ Unwrap(cut).high = F10
    /\ "x" \in DOMAIN ret.args[1]
    /\ ret.args[1]["x"] = F0
    /\ ~Unwrap(cut).is_valid

\* C10: Cut2D::new fails with Invalid2D on fewer than 3 points, on x and y
\* sequences of different length and on an absent y_variable, with Unclosed2D
\* when the first vertex differs from the last in x or y, and succeeds
\* otherwise; Cut1D::new fails with Invalid1D iff low >= high; a constructed
\* cut holds the geometry given and starts invalid.
C10_CutConstruction ==
    /\ (ret.op = "cut2d_new") =>
        LET spec == ret.args[1]
            xs == ret.args[2]
            ys == ret.args[3]
            invalid == Len(xs) < 3 \/ Len(xs) # Len(ys) \/ spec.y_variable = None
            unclosed == ~invalid /\ (xs[1] # xs[Len(xs)] \/ ys[1] # ys[Len(ys)])
        IN  /\ invalid => ret.res = Err("Invalid2D")
            /\ unclosed => ret.res = Err("Unclosed2D")
            /\ (~invalid /\ ~unclosed) =>
                /\ ret.res.ok
                /\ cut = Some(ret.res.val)
                /\ ret.res.val = [kind |-> "Cut2D", spec |-> spec, x_values |-> xs,
                                  y_values |-> ys, is_valid |-> FALSE]
    /\ (ret.op = "cut1d_new") =>
        LET spec == ret.args[1]
            low == ret.args[2]
            high == ret.args[3]
        IN  /\ ~ret.res.ok <=> ~FLt(low, high)
            /\ ~ret.res.ok => ret.res = Err("Invalid1D")
            /\ ret.res.ok =>
                /\ cut = Some(ret.res.val)
                /\ ret.res.val = [kind |-> "Cut1D", spec |-> spec, low |-> low,
                                  high |-> high, is_valid |-> FALSE]

\* a polygon refused as unclosed whose ends agree in x and differ in y
C10_Witness ==
    /\ ret.op = "cut2d_new"
    /\ ret.res = Err("Unclosed2D")
    /\ ret.args[2][1] = ret.args[2][Len(ret.args[2])]

\* C12: evaluating a cut is idempotent and history-free: the cut an
\* evaluation of a record leaves is the cut that evaluating the same record
\* leaves again, whether the validity cached before it is true or false.
C12_EvaluateIdempotent ==
    (ret.op = "is_inside") =>
        LET blob == ret.args[1]
            c == Unwrap(cut)
        IN  /\ c = CutIsInside([c EXCEPT !.is_valid = TRUE], blob)
            /\ c = CutIsInside([c EXCEPT !.is_valid = FALSE], blob)

\* a polygon cut left valid by an evaluation on a record with both variables
C12_Witness ==
    /\ ret.op = "is_inside"
    /\ Unwrap(cut).kind = "Cut2D"
    /\ DOMAIN ret.args[1] = {"x", "y"}
    /\ Unwrap(cut).is_valid

\* exact arithmetic on m * 2^e pairs, without rounding
XSub(a, b) == LET al == Aligned(a, b) IN [m |-> al.x - al.y, e |-> al.e]
XMul(a, b) == [m |-> a.m * b.m, e |-> a.e + b.e]
Sgn(n) == IF n < 0 THEN -1 ELSE IF n > 0 THEN 1 ELSE 0

\* the side of the line a -> b the point p lies on: 1 left, -1 right, 0 on it
CrossSign(a, b, p) ==
    Sgn(XSub(XMul(XSub(b.x, a.x), XSub(p.y, a.y)),
             XMul(XSub(b.y, a.y), XSub(p.x, a.x))).m)

FLe(a, b) == ~FLt(b, a)
Between(u, v, w) == (FLe(u, v) /\ FLe(v, w)) \/ (FLe(w, v) /\ FLe(v, u))

\* p lies on the closed segment a b
OnSegment(a, b, p) ==
    CrossSign(a, b, p) = 0 /\ Between(a.x, p.x, b.x) /\ Between(a.y, p.y, b.y)

\* the closed segments a b and c d have a point in common
SegmentsMeet(a, b, c, d) ==
    \/ /\ CrossSign(a, b, c) * CrossSign(a, b, d) < 0
       /\ CrossSign(c, d, a) * CrossSign(c, d, b) < 0
    \/ OnSegment(a, b, c) \/ OnSegment(a, b, d)
    \/ OnSegment(c, d, a) \/ OnSegment(c, d, b)

Vertex(xs, ys, i) == [x |-> xs[i], y |-> ys[i]]

\* a closed polygon of at least three distinct vertices whose edges meet
\* only at the vertex two neighbours share
IsSimplePolygon(xs, ys) ==
    LET n == Len(xs) - 1
        V(i) == Vertex(xs, ys, i)
        next(i) == IF i = n THEN 1 ELSE i + 1
    IN  /\ n >= 3
        /\ V(n + 1) = V(1)
        /\ \A i, j \in 1..n : i # j => V(i) # V(j)
        /\ \A i, j \in 1..n :
            i < j =>
                IF next(i) = j
                THEN ~OnSegment(V(j), V(next(j)), V(i)) /\ ~OnSegment(V(i), V(j), V(next(j)))
                ELSE IF next(j) = i
                THEN ~OnSegment(V(i), V(next(i)), V(j)) /\ ~OnSegment(V(j), V(i), V(next(i)))
                ELSE ~SegmentsMeet(V(i), V(next(i)), V(j), V(next(j)))

\* the edge a -> b crosses the ray from p towards larger x
CrossesRay(a, b, p) ==
    \/ FLe(a.y, p.y) /\ FLt(p.y, b.y) /\ CrossSign(a, b, p) > 0
    \/ FLe(b.y, p.y) /\ FLt(p.y, a.y) /\ CrossSign(a, b, p) < 0

\* p is strictly inside the polygon (an odd number of crossings) or on its
\* boundary
InPolygon(xs, ys, p) ==
    LET edges == 1..(Len(xs) - 1)
        V(i) == Vertex(xs, ys, i)
    IN  \/ \E i \in edges : OnSegment(V(i), V(i + 1), p)
        \/ Cardinality({i \in edges : CrossesRay(V(i), V(i + 1), p)}) % 2 = 1

\* C14: for a closed simple polygon and a record with both variables, the
\* cut is valid after the evaluation exactly when the point is strictly
\* inside the polygon or on its boundary; every point outside, so every point
\* outside the bounding box, is invalid.
C14_EvenOddMembership ==
    (/\ ret.op = "is_inside"
     /\ Unwrap(cut).kind = "Cut2D"
     /\ IsSimplePolygon(Unwrap(cut).x_values, Unwrap(cut).y_values)
     /\ DOMAIN ret.args[1] = {"x", "y"}) =>
        LET c == Unwrap(cut)
            p == [x |-> ret.args[1][c.spec.x_variable],
                  y |-> ret.args[1][Unwrap(c.spec.y_variable)]]
        IN  c.is_valid <=> InPolygon(c.x_values, c.y_values, p)

(***************************************************************************)
(* Claims about the resource manager (Spec).                               *)
(***************************************************************************)
AddCutOps == {"add_cut_1d", "add_cut_2d"}
ConstructionErrors == {"Invalid1D", "Invalid2D", "Unclosed2D"}

NoDanglingDrawnCut ==
    \A id \in DOMAIN histograms :
        \A i \in DOMAIN histograms[id].spec.cuts_to_draw :
            histograms[id].spec.cuts_to_draw[i] \in DOMAIN cuts

\* C1: an add_cut_1d / add_cut_2d that fails because the cut cannot be
\* constructed leaves the registry as it was, so every id in a drawn-cut list
\* refers to a registered cut.
C1_FailedAddCutKeepsRegistry ==
    [][/\ (ret'.op \in AddCutOps /\ ret'.res.err \in ConstructionErrors) =>
            (histograms' = histograms /\ cuts' = cuts)
       /\ NoDanglingDrawnCut']_vars

\* some registered gating cut of g is invalid in cs
InvalidGate(g, cs) ==
    \E i \in DOMAIN g.spec.cuts_to_check :
        /\ g.spec.cuts_to_check[i] \in DOMAIN cs
        /\ ~cs[g.spec.cuts_to_check[i]].is_valid

HasGate(g, cs) ==
    \E i \in DOMAIN g.spec.cuts_to_check : g.spec.cuts_to_check[i] \in DOMAIN cs

InAxis(a, data) ==
    /\ a.variable \in DOMAIN data
    /\ FGe(data[a.variable], a.minimum)
    /\ FLt(data[a.variable], a.maximum)

\* every axis variable of g is in the record and inside its axis range
InRange(g, data) ==
    /\ InAxis(g.spec.x_axis, data)
    /\ IsSome(g.spec.y_axis) => InAxis(Unwrap(g.spec.y_axis), data)

\* exactly one counter is one higher, every other counter is as before
OneMore(before, after) ==
    \E i \in DOMAIN before : after = [before EXCEPT ![i] = @ + 1]

\* C2: in update a histogram with a registered gating cut that is invalid
\* for the record is not filled; when its gating cuts are valid for the record
\* and its values are in range, exactly one of its counters is incremented.
C2_GatedFill ==
    [][(ret'.op = "update") =>
        \A id \in DOMAIN histograms :
            LET g == histograms[id]
                after == histograms'[id].data
                data == ret'.args[1]
            IN  HasGate(g, cuts') =>
                  /\ InvalidGate(g, cuts') => after = g.data
                  /\ (~InvalidGate(g, cuts') /\ InRange(g, data)) =>
                        OneMore(g.data, after)]_vars

\* C3: update returns Ok; a histogram that is skipped or whose fill fails
\* keeps its counts, and every histogram that passes its gates with values in
\* range gets exactly one counter incremented in the same update.
C3_UpdateTotal ==
    [][(ret'.op = "update") =>
        /\ ret'.res = Ok(0)
        /\ \A id \in DOMAIN histograms :
            LET g == histograms[id]
                after == histograms'[id].data
                data == ret'.args[1]
                filled == ~InvalidGate(g, cuts') /\ InRange(g, data)
            IN  /\ ~filled => after = g.data
                /\ filled => OneMore(g.data, after)]_vars

\* C4: remove_histogram of a registered id removes that histogram alone:
\* its spec and data can no longer be read, every other histogram and every
\* cut is as before; on an unregistered id it fails with InvalidHistogramID
\* and changes nothing.
C4_RemoveHistogram ==
    [][(ret'.op = "remove_histogram") =>
        LET id == ret'.args[1]
        IN  IF id \in DOMAIN histograms
            THEN /\ ret'.res.ok
                 /\ get_histogram_spec(histograms', id) = Err("InvalidHistogramID")
                 /\ get_histogram_data(histograms', id) = Err("InvalidHistogramID")
                 /\ DOMAIN histograms' = DOMAIN histograms \ {id}
                 /\ \A k \in DOMAIN histograms' :
                        /\ histograms'[k] = histograms[k]
                        /\ get_histogram_spec(histograms', k) = Ok(histograms[k].spec)
                        /\ get_histogram_data(histograms', k) = Ok(histograms[k].data)
                 /\ cuts' = cuts
            ELSE /\ ret'.res = Err("InvalidHistogramID")
                 /\ histograms' = histograms
                 /\ cuts' = cuts]_vars

\* one of two histograms removed, the one that stays holding a count
C4_Witness ==
    /\ ret.op = "remove_histogram"
    /\ ret.res.ok
    /\ \E k \in DOMAIN histograms :
        /\ k # ret.args[1]
        /\ SumSeq(histograms[k].data) > 0

\* the validity a cut has for a record by its geometry alone
FreshValid(c, data) == CutIsValid(CutIsInside(CutReset(c), data))

\* some registered gating cut of g is invalid for the record by its geometry
FreshInvalidGate(g, cs, data) ==
    \E i \in DOMAIN g.spec.cuts_to_check :
        /\ g.spec.cuts_to_check[i] \in DOMAIN cs
        /\ ~FreshValid(cs[g.spec.cuts_to_check[i]], data)

\* C13: update re-evaluates every registered cut against the record before
\* it checks any gate, so whether a histogram is filled depends on the record
\* and the registered geometry alone, never on the validity the cuts held
\* before the call.
C13_NoStaleValidity ==
    [][(ret'.op = "update") =>
        LET data == ret'.args[1]
        IN  /\ DOMAIN cuts' = DOMAIN cuts
            /\ \A id \in DOMAIN cuts :
                cuts'[id] = [cuts[id] EXCEPT !.is_valid = FreshValid(cuts[id], data)]
            /\ \A id \in DOMAIN histograms :
                LET g == histograms[id]
                    after == histograms'[id].data
                IN  /\ FreshInvalidGate(g, cuts, data) => after = g.data
                    /\ (~FreshInvalidGate(g, cuts, data) /\ InRange(g, data) /\ ~panicked')
                          => OneMore(g.data, after)]_vars

\* an update that filled h1 through its registered gating cut c1
C13_Witness ==
    /\ ret.op = "update"
    /\ "h1" \in DOMAIN histograms
    /\ "c1" \in DOMAIN cuts
    /\ histograms["h1"].spec.cuts_to_check = <<"c1">>
    /\ cuts["c1"].is_valid
    /\ SumSeq(histograms["h1"].data) = 1

\* the counts the body of update's loop can leave in g for a record
CountsAfter(g, cs, data) == {o.gram.data : o \in UpdateGram(g, cs, data)}

\* C16: add_cut_1d / add_cut_2d change nothing of the histograms but the
\* target's drawn-cut list, which gets the cut's id appended; cuts_to_check,
\* the counts and every other histogram stay as they were; and what update
\* does to a histogram's counts is what it does with the drawn-cut list empty.
C16_DrawnCutsInert ==
    [][/\ (ret'.op \in AddCutOps) =>
            LET spec == ret'.args[1]
                histogram_id == ret'.args[4]
            IN  /\ DOMAIN histograms' = DOMAIN histograms
                /\ \A id \in DOMAIN histograms :
                    histograms'[id] =
                        IF id = histogram_id
                        THEN [histograms[id] EXCEPT
                                 !.spec.cuts_to_draw = Append(@, spec.id)]
                        ELSE histograms[id]
       /\ (ret'.op = "update") =>
            \A id \in DOMAIN histograms :
                LET g == histograms[id]
                    blank == [g EXCEPT !.spec.cuts_to_draw = <<>>]
                    after == histograms'[id]
                IN  /\ after.spec = g.spec
                    /\ after.data \in CountsAfter(blank, cuts', ret'.args[1]) \cup {g.data}
                    /\ ~panicked' => after.data \in CountsAfter(blank, cuts', ret'.args[1])]_vars

\* an update that filled h1 while h1 had a cut to draw
C16_Witness ==
    /\ ret.op = "update"
    /\ "h1" \in DOMAIN histograms
    /\ histograms["h1"].spec.cuts_to_draw # <<>>
    /\ SumSeq(histograms["h1"].data) = 1

\* C17: in update a gating id that refers to no registered cut passes: a
\* histogram is skipped by its gates iff one of its gating ids refers to a
\* registered cut that is invalid for the record; otherwise it is treated as
\* the same histogram without gates, so one whose gating ids are all
\* unregistered is filled whenever its values are in range.
C17_UnregisteredGatePasses ==
    [][(ret'.op = "update") =>
        \A id \in DOMAIN histograms :
            LET g == histograms[id]
                ungated == [g EXCEPT !.spec.cuts_to_check = <<>>]
                after == histograms'[id].data
                data == ret'.args[1]
            IN  /\ InvalidGate(g, cuts') => after = g.data
                /\ (~InvalidGate(g, cuts') /\ ~panicked') =>
                        after \in CountsAfter(ungated, cuts', data)
                /\ (~HasGate(g, cuts') /\ InRange(g, data) /\ ~panicked') =>
                        OneMore(g.data, after)]_vars

\* an update that filled h1 while its only gating id, c1, was unregistered
C17_Witness ==
    /\ ret.op = "update"
    /\ "h1" \in DOMAIN histograms
    /\ histograms["h1"].spec.cuts_to_check = <<"c1">>
    /\ "c1" \notin DOMAIN cuts
    /\ SumSeq(histograms["h1"].data) = 1

\* C18: add_cut_1d / add_cut_2d naming a histogram that is not registered
\* return the NoReferenceHistogram error and change neither the histograms
\* nor the cuts, whatever the geometry; no other add_cut returns that error.
C18_UnknownHistogram ==
    [][(ret'.op \in AddCutOps) =>
        IF ret'.args[4] \in DOMAIN histograms
        THEN ret'.res.err # "NoReferenceHistogram"
        ELSE /\ ret'.res = Err("NoReferenceHistogram")
             /\ histograms' = histograms
             /\ cuts' = cuts]_vars

\* a closed polygon refused for the unregistered h1 while h2 is registered
C18_Witness ==
    /\ ret.op = "add_cut_2d"
    /\ ret.res = Err("NoReferenceHistogram")
    /\ Cut2DNew(ret.args[1], ret.args[2], ret.args[3]).ok
    /\ DOMAIN histograms = {"h2"}
    /\ cuts = EmptyMap

\* the length Histogram::new gives the count array of spec
BinCount(spec) ==
    IF IsSome(spec.y_axis) THEN spec.x_axis.bins * Unwrap(spec.y_axis).bins
    ELSE spec.x_axis.bins

\* C19: add_histogram registers the spec under spec.id, replacing whatever
\* was registered there: afterwards the id holds a histogram with the new
\* spec (its cut lists as given) and all counts zero, the registered ids are
\* the old ones and spec.id (the same number when the id was registered),
\* every other histogram and every cut is as before.
C19_AddHistogramOverwrites ==
    [][(ret'.op = "add_histogram") =>
        LET spec == ret'.args[1]
        IN  /\ DOMAIN histograms' = DOMAIN histograms \cup {spec.id}
            /\ (spec.id \in DOMAIN histograms) =>
                    Cardinality(DOMAIN histograms') = Cardinality(DOMAIN histograms)
            /\ get_histogram_spec(histograms', spec.id) = Ok(spec)
            /\ get_histogram_data(histograms', spec.id) =
                    Ok([i \in 1..BinCount(spec) |-> 0])
            /\ \A k \in DOMAIN histograms : k # spec.id => histograms'[k] = histograms[k]
            /\ cuts' = cuts]_vars

\* h1 added again after a cut was drawn on it: the fresh h1 has no cut to
\* draw, the cut is still registered, h2 is still there
C19_Witness ==
    /\ ret.op = "add_histogram"
    /\ ret.args[1].id = "h1"
    /\ DOMAIN histograms = {"h1", "h2"}
    /\ "c1" \in DOMAIN cuts
    /\ histograms["h1"].spec.cuts_to_draw = <<>>

\* the index fill computes for a record whose values are in range: bin_x for
\* a 1-D histogram, bin_x * bin_y for a 2-D one
FillIndex(g, data) ==
    LET bin_x == get_bin(g.spec.x_axis, data[g.spec.x_axis.variable]).val
    IN  IF IsSome(g.spec.y_axis)
        THEN bin_x * get_bin(Unwrap(g.spec.y_axis),
                             data[Unwrap(g.spec.y_axis).variable]).val
        ELSE bin_x

\* C20: every registered histogram's count array has the length it was
\* created with, x_axis.bins or x_axis.bins * y_axis.bins; the index fill
\* computes for in-range values lies inside the array, and no fill has
\* accessed a counter out of bounds.
C20_CountArrayBounds ==
    /\ ~panicked
    /\ \A id \in DOMAIN histograms :
        LET g == histograms[id]
        IN  /\ Len(g.data) = BinCount(g.spec)
            /\ \A data \in Records :
                InRange(g, data) => FillIndex(g, data) < Len(g.data)

\* the array lengths of C20 alone: no operation resizes a count array
CountArrayLength ==
    \A id \in DOMAIN histograms :
        Len(histograms[id].data) = BinCount(histograms[id].spec)

\* an update that returns treats every histogram as C3 describes: the
\* gating and the skips are as stated wherever no fill panics
UpdateFillsUnlessPanic ==
    [][(ret'.op = "update" /\ ~panicked') =>
        \A id \in DOMAIN histograms :
            LET g == histograms[id]
                after == histograms'[id].data
                data == ret'.args[1]
                filled == ~InvalidGate(g, cuts') /\ InRange(g, data)
            IN  /\ ~filled => after = g.data
                /\ filled => OneMore(g.data, after)]_vars

====
